---- MODULE Spec2Model ----
(***************************************************************************)
(* The audit-proof anchoring pipeline of The-Pursuit-of-Fairness:          *)
(*   - the on-chain ledger (Move module 0x0::oracle): init_table,          *)
(*     anchor_audit, proof_count over shared AuditTable objects;           *)
(*   - the Walrus storage adapter (node script): upload, extractJson,      *)
(*     parseWalrus;                                                        *)
(*   - the dashboard's upload form (React component UploadSection):        *)
(*     handleUpload, the file input, the Upload and Reset buttons.         *)
(* Each part has its own specification over the module's variables.        *)
(***************************************************************************)
EXTENDS Integers, Sequences, FiniteSets, TLC

VARIABLES
    shared,      \* the shared AuditTable objects, in creation order
    nextDigest,  \* digest of the next transaction (fresh per transaction)
    pending,     \* per caller: the anchor_audit transaction submitted, not yet committed
    history,     \* committed anchor_audit transactions, in commit order
    submitted,   \* every anchor_audit transaction ever submitted, in submission order
    ret,         \* the last value returned by proof_count, with the table read
    pc,          \* where the adapter process is in upload()
    file,        \* the file path argument, resolved, and whether the file exists
    input,       \* what the storage tool did: its exit status and what it printed
    raw,         \* execSync's return value: the tool's captured output
    jsonArr,     \* extractJson's return value
    parsed,      \* parseWalrus's return value
    err,         \* the error caught in upload()
    stdout,      \* the lines the adapter has written to standard output
    stderr,      \* the diagnostics the adapter has written to the error stream
    exitCode,    \* the adapter's exit status, once it has ended
    spawned,     \* the number of external processes spawned
    selectedFile,\* UploadSection's state `file`: the chosen File or null
    uploading,   \* UploadSection's state `uploading`
    result,      \* UploadSection's state `result`: the server's JSON or null
    error,       \* UploadSection's state `error`: a message or null
    requests     \* the calls of handleUpload awaiting fetch or the response body

ledgerVars == <<shared, nextDigest, pending, history, submitted, ret>>

storeVars == <<pc, file, input, raw, jsonArr, parsed, err, stdout, stderr,
               exitCode, spawned>>

vars == <<shared, nextDigest, pending, history, submitted, ret,
          pc, file, input, raw, jsonArr, parsed, err, stdout, stderr,
          exitCode, spawned,
          selectedFile, uploading, result, error, requests>>

uiVars == <<selectedFile, uploading, result, error, requests>>

None == [none |-> TRUE]

(***************************************************************************)
(* Bounds and input sets of the ledger                                     *)
(***************************************************************************)
MaxTables == 2
MaxTx == 2

Callers == {"alice", "bob"}
\* The (bundle_hash, fairness_score, timestamp) arguments callers pass: an
\* empty and a repeated hash, a zero score, timestamps out of order.
AuditInputs ==
    {<<<<>>, 0, 1700000000>>,
     <<<<>>, 87, 1600000000>>,
     <<<<171, 205>>, 87, 1700000000>>,
     <<<<171, 205>>, 0, 1600000000>>}

(***************************************************************************)
(* 0x0::oracle                                                             *)
(***************************************************************************)
\* struct AuditProof
AuditProof(bundle_hash, fairness_score, timestamp) ==
    [bundle_hash |-> bundle_hash,
     fairness_score |-> fairness_score,
     timestamp |-> timestamp]

\* struct AuditTable
AuditTable(id, proofs) == [id |-> id, proofs |-> proofs]

\* A transaction's TxContext: its digest and the ids it has created so far.
TxContext(digest) == [digest |-> digest, ids_created |-> 0]

\* Variant of object::new that hands out one fixed UID.
object_new_same(ctx) ==
    [uid |-> <<0, 0>>, ctx |-> [ctx EXCEPT !.ids_created = @ + 1]]

\* object::new(ctx): a UID derived from the digest and the creation counter.
object_new(ctx) ==
    [uid |-> <<ctx.digest, ctx.ids_created>>,
     ctx |-> [ctx EXCEPT !.ids_created = @ + 1]]

\* Variant of init_table whose table starts with a placeholder proof.
init_table_seeded(ctx) ==
    LET uid == object_new(ctx).uid
    IN  AuditTable(uid, <<AuditProof(<<>>, 0, 0)>>)

\* init_table: the table handed to transfer::share_object.
init_table(ctx) ==
    LET uid == object_new(ctx).uid
    IN  AuditTable(uid, <<>>)

\* Variant of anchor_audit that writes over the last proof (a lost append).
anchor_audit_overwrite(table, bundle_hash, fairness_score, timestamp) ==
    LET proof == AuditProof(bundle_hash, fairness_score, timestamp)
    IN  IF table.proofs = <<>>
        THEN [table EXCEPT !.proofs = <<proof>>]
        ELSE [table EXCEPT !.proofs[Len(table.proofs)] = proof]

\* Variant of anchor_audit that inserts at the front.
anchor_audit_front(table, bundle_hash, fairness_score, timestamp) ==
    LET proof == AuditProof(bundle_hash, fairness_score, timestamp)
    IN  [table EXCEPT !.proofs = <<proof>> \o @]

\* Variant of anchor_audit that skips empty or repeated hashes and
\* timestamps that go backwards.
anchor_audit_checked(table, bundle_hash, fairness_score, timestamp) ==
    LET proof == AuditProof(bundle_hash, fairness_score, timestamp)
    IN  IF \/ bundle_hash = <<>>
           \/ \E i \in DOMAIN table.proofs :
                \/ table.proofs[i].bundle_hash = bundle_hash
                \/ table.proofs[i].timestamp > timestamp
        THEN table
        ELSE [table EXCEPT !.proofs = Append(@, proof)]

\* anchor_audit: vector::push_back(&mut table.proofs, proof)
anchor_audit(table, bundle_hash, fairness_score, timestamp) ==
    LET proof == AuditProof(bundle_hash, fairness_score, timestamp)
    IN  [table EXCEPT !.proofs = Append(@, proof)]

\* Variant of proof_count that empties the table it counts.
proof_count_drain(table) ==
    [value |-> Len(table.proofs), table |-> [table EXCEPT !.proofs = <<>>]]

\* proof_count: vector::length(&table.proofs); the table is borrowed immutably.
proof_count(table) ==
    [value |-> Len(table.proofs), table |-> table]

(***************************************************************************)
(* Transactions against the shared objects                                 *)
(***************************************************************************)
TableIds == {shared[i].id : i \in DOMAIN shared}

\* The shared object a table reference resolves to.
TableAt(id) == CHOOSE i \in DOMAIN shared : shared[i].id = id

Tx(table, bundle_hash, fairness_score, timestamp) ==
    [table |-> table,
     proof |-> AuditProof(bundle_hash, fairness_score, timestamp)]

NumPending == Cardinality({c \in Callers : pending[c] # None})

\* An init_table transaction commits: the new table becomes a shared object.
InitTable ==
    /\ Len(shared) < MaxTables
    /\ shared' = Append(shared, init_table(TxContext(nextDigest)))
    /\ nextDigest' = nextDigest + 1
    /\ UNCHANGED <<pending, history, submitted, ret>>
    /\ UNCHANGED storeVars
    /\ UNCHANGED uiVars

\* A caller submits an anchor_audit transaction against a table it holds a
\* reference to; the transaction waits for the substrate to order it.
SubmitAnchorAudit(c, id, bundle_hash, fairness_score, timestamp) ==
    /\ pending[c] = None
    /\ Len(history) + NumPending < MaxTx
    /\ id \in TableIds
    /\ LET tx == Tx(id, bundle_hash, fairness_score, timestamp)
       IN  /\ pending' = [pending EXCEPT ![c] = tx]
           /\ submitted' = Append(submitted, tx)
    /\ UNCHANGED <<shared, nextDigest, history, ret>>
    /\ UNCHANGED storeVars
    /\ UNCHANGED uiVars

\* The substrate commits one pending anchor_audit transaction: the entry
\* function runs atomically with exclusive access to the table.
CommitAnchorAudit(c) ==
    /\ pending[c] # None
    /\ LET tx == pending[c]
           i == TableAt(tx.table)
       IN  /\ shared' = [shared EXCEPT ![i] =
                  anchor_audit(shared[i], tx.proof.bundle_hash,
                               tx.proof.fairness_score, tx.proof.timestamp)]
           /\ history' = Append(history, tx)
    /\ pending' = [pending EXCEPT ![c] = None]
    /\ nextDigest' = nextDigest + 1
    /\ UNCHANGED <<submitted, ret>>
    /\ UNCHANGED storeVars
    /\ UNCHANGED uiVars

\* A caller reads proof_count of a table.
ProofCount(i) ==
    /\ i \in DOMAIN shared
    /\ LET r == proof_count(shared[i])
       IN  /\ ret' = [table |-> shared[i].id, value |-> r.value]
           /\ shared' = [shared EXCEPT ![i] = r.table]
    /\ UNCHANGED <<nextDigest, pending, history, submitted>>
    /\ UNCHANGED storeVars
    /\ UNCHANGED uiVars

LedgerNext ==
    \/ InitTable
    \/ \E c \in Callers, i \in DOMAIN shared, a \in AuditInputs :
          SubmitAnchorAudit(c, shared[i].id, a[1], a[2], a[3])
    \/ \E c \in Callers : CommitAnchorAudit(c)
    \/ \E i \in DOMAIN shared : ProofCount(i)


(***************************************************************************)
(* The storage adapter: text and JavaScript values                         *)
(*                                                                         *)
(* Text is a sequence of tokens: Ch(x) is the character (or bare word) x,  *)
(* Str(x) the JSON string literal "x".                                     *)
(***************************************************************************)
Ch(x) == [c |-> x]
Str(x) == [s |-> x]
IsStr(tok) == DOMAIN tok = {"s"}

ESC == Ch("ESC")
Digits == {"0", "1", "2", "3", "4", "5", "6", "7", "8", "9"}
IsDigit(tok) == \E d \in Digits : tok = Ch(d)
\* \s of a JavaScript regular expression
IsSpace(tok) == tok = Ch(" ") \/ tok = Ch("\n") \/ tok = Ch("\t")

\* JavaScript values
Undefined == [t |-> "undefined"]
Null == [t |-> "null"]
JBool(b) == [t |-> "bool", v |-> b]
\* A number: its decimal digits.
JNum(digits) == [t |-> "num", v |-> digits]
JStr(x) == [t |-> "str", v |-> x]
JArr(elems) == [t |-> "arr", v |-> elems]
\* An object: its members [k, v] in insertion order.
JObj(members) == [t |-> "obj", v |-> members]
Member(k, v) == [k |-> k, v |-> v]

\* The result of evaluating an expression: a value, or a thrown error.
Ok(v) == [threw |-> FALSE, value |-> v]
Throw(name, message) == [threw |-> TRUE, name |-> name, message |-> message]

\* obj[key] where obj is neither undefined nor null: the last member named
\* key of an object, an element of an array, undefined otherwise.
Prop(obj, key) ==
    IF obj.t = "obj"
    THEN LET hits == {n \in DOMAIN obj.v : obj.v[n].k = key}
         IN  IF hits = {} THEN Undefined
             ELSE obj.v[CHOOSE n \in hits : \A m \in hits : m <= n].v
    ELSE IF obj.t = "arr" /\ key = "0" /\ Len(obj.v) >= 1 THEN obj.v[1]
    ELSE Undefined

\* Property access on undefined or null throws a TypeError.
Nullish(v) == v.t \in {"undefined", "null"}

\* ToBoolean
Truthy(v) ==
    CASE v.t \in {"undefined", "null"} -> FALSE
      [] v.t = "bool" -> v.v
      [] v.t = "num" -> v.v # <<"0">>
      [] v.t = "str" -> v.v # ""
      [] OTHER -> TRUE

RECURSIVE Concat(_, _)
\* The strings of sequence s from index n on, joined.
Concat(s, n) == IF n > Len(s) THEN "" ELSE s[n] \o Concat(s, n + 1)

RECURSIVE JoinToString(_, _)
\* ToString(v), as a template literal `${v}` applies it.
TemplateString(v) ==
    CASE v.t = "undefined" -> "undefined"
      [] v.t = "null" -> "null"
      [] v.t = "bool" -> IF v.v THEN "true" ELSE "false"
      [] v.t = "num" -> Concat(v.v, 1)
      [] v.t = "str" -> v.v
      [] v.t = "arr" -> JoinToString(v.v, 1)
      [] OTHER -> "[object Object]"

\* Array.prototype.join(","): undefined and null elements give "".
JoinToString(elems, n) ==
    IF n > Len(elems) THEN ""
    ELSE (IF Nullish(elems[n]) THEN "" ELSE TemplateString(elems[n]))
         \o (IF n < Len(elems) THEN "," ELSE "")
         \o JoinToString(elems, n + 1)

(***************************************************************************)
(* JSON.parse and JSON.stringify over token text                           *)
(***************************************************************************)
RECURSIVE SkipSpace(_, _)
\* The first index >= i of s that holds no white space (Len(s) + 1 if none).
SkipSpace(s, i) ==
    IF i <= Len(s) /\ IsSpace(s[i]) THEN SkipSpace(s, i + 1) ELSE i

RECURSIVE DigitRun(_, _)
\* The first index >= i of s that holds no digit.
DigitRun(s, i) ==
    IF i <= Len(s) /\ IsDigit(s[i]) THEN DigitRun(s, i + 1) ELSE i

\* The digits of s from index i up to, not including, index j.
DigitString(s, i, j) == [n \in 1..(j - i) |-> s[i + n - 1].c]

Parsed(v, next) == [ok |-> TRUE, val |-> v, next |-> next]
NoParse == [ok |-> FALSE]

RECURSIVE ParseValue(_, _), ParseMembers(_, _, _), ParseElements(_, _, _)
\* One JSON value of s starting at or after index i.
ParseValue(s, i) ==
    LET j == SkipSpace(s, i)
    IN  IF j > Len(s) THEN NoParse
        ELSE IF IsStr(s[j]) THEN Parsed(JStr(s[j].s), j + 1)
        ELSE IF s[j] = Ch("null") THEN Parsed(Null, j + 1)
        ELSE IF s[j] = Ch("true") THEN Parsed(JBool(TRUE), j + 1)
        ELSE IF s[j] = Ch("false") THEN Parsed(JBool(FALSE), j + 1)
        ELSE IF IsDigit(s[j])
        THEN LET e == DigitRun(s, j)
             IN  IF s[j] = Ch("0") /\ e > j + 1 THEN NoParse
                 ELSE Parsed(JNum(DigitString(s, j, e)), e)
        ELSE IF s[j] = Ch("{")
        THEN LET k == SkipSpace(s, j + 1)
             IN  IF k <= Len(s) /\ s[k] = Ch("}")
                 THEN Parsed(JObj(<<>>), k + 1)
                 ELSE ParseMembers(s, k, <<>>)
        ELSE IF s[j] = Ch("[")
        THEN LET k == SkipSpace(s, j + 1)
             IN  IF k <= Len(s) /\ s[k] = Ch("]")
                 THEN Parsed(JArr(<<>>), k + 1)
                 ELSE ParseElements(s, k, <<>>)
        ELSE NoParse

\* The members of an object from index i on, up to its closing brace.
ParseMembers(s, i, acc) ==
    LET j == SkipSpace(s, i)
        c == SkipSpace(s, j + 1)
    IN  IF ~(j <= Len(s) /\ IsStr(s[j])) THEN NoParse
        ELSE IF ~(c <= Len(s) /\ s[c] = Ch(":")) THEN NoParse
        ELSE LET v == ParseValue(s, c + 1)
             IN  IF ~v.ok THEN NoParse
                 ELSE LET m == SkipSpace(s, v.next)
                          got == Append(acc, Member(s[j].s, v.val))
                      IN  IF m > Len(s) THEN NoParse
                          ELSE IF s[m] = Ch(",") THEN ParseMembers(s, m + 1, got)
                          ELSE IF s[m] = Ch("}") THEN Parsed(JObj(got), m + 1)
                          ELSE NoParse

\* The elements of an array from index i on, up to its closing bracket.
ParseElements(s, i, acc) ==
    LET v == ParseValue(s, i)
    IN  IF ~v.ok THEN NoParse
        ELSE LET m == SkipSpace(s, v.next)
                 got == Append(acc, v.val)
             IN  IF m > Len(s) THEN NoParse
                 ELSE IF s[m] = Ch(",") THEN ParseElements(s, m + 1, got)
                 ELSE IF s[m] = Ch("]") THEN Parsed(JArr(got), m + 1)
                 ELSE NoParse

\* JSON.parse(text): the value, or a SyntaxError.
JSONparse(text) ==
    LET v == ParseValue(text, 1)
    IN  IF v.ok /\ SkipSpace(text, v.next) > Len(text)
        THEN Ok(v.val)
        ELSE Throw("SyntaxError", "Unexpected token in JSON")

RECURSIVE JSONstringify(_), StringifyMembers(_, _, _), StringifyElements(_, _)
\* JSON.stringify(v) for a value other than undefined: no white space.
JSONstringify(v) ==
    CASE v.t = "null" -> <<Ch("null")>>
      [] v.t = "bool" -> <<Ch(IF v.v THEN "true" ELSE "false")>>
      [] v.t = "num" -> [n \in DOMAIN v.v |-> Ch(v.v[n])]
      [] v.t = "str" -> <<Str(v.v)>>
      [] v.t = "arr" -> <<Ch("[")>> \o StringifyElements(v.v, 1) \o <<Ch("]")>>
      [] v.t = "obj" -> <<Ch("{")>> \o StringifyMembers(v.v, 1, TRUE) \o <<Ch("}")>>

\* Members whose value is undefined are left out.
StringifyMembers(members, n, first) ==
    IF n > Len(members) THEN <<>>
    ELSE IF members[n].v.t = "undefined"
    THEN StringifyMembers(members, n + 1, first)
    ELSE (IF first THEN <<>> ELSE <<Ch(",")>>)
         \o <<Str(members[n].k), Ch(":")>> \o JSONstringify(members[n].v)
         \o StringifyMembers(members, n + 1, FALSE)

\* An undefined element is written as null.
StringifyElements(elems, n) ==
    IF n > Len(elems) THEN <<>>
    ELSE (IF n = 1 THEN <<>> ELSE <<Ch(",")>>)
         \o (IF elems[n].t = "undefined" THEN <<Ch("null")>>
             ELSE JSONstringify(elems[n]))
         \o StringifyElements(elems, n + 1)

(***************************************************************************)
(* extractJson and parseWalrus                                             *)
(***************************************************************************)
RECURSIVE ColorParams(_, _)
\* [0-9;]* from index j: the first index that holds neither digit nor ';'.
ColorParams(s, j) ==
    IF j <= Len(s) /\ (IsDigit(s[j]) \/ s[j] = Ch(";"))
    THEN ColorParams(s, j + 1) ELSE j

\* /\x1b\[[0-9;]*m/ at index i: the index of its final 'm', or 0.
ColorCodeEnd(s, i) ==
    IF i + 1 <= Len(s) /\ s[i] = ESC /\ s[i + 1] = Ch("[")
    THEN LET j == ColorParams(s, i + 2)
         IN  IF j <= Len(s) /\ s[j] = Ch("m") THEN j ELSE 0
    ELSE 0

RECURSIVE RemoveColorCodes(_, _)
\* output.replace(/\x1b\[[0-9;]*m/g, "") from index i on: one pass, left to
\* right, each time cutting out the leftmost match at or after i.
RemoveColorCodes(s, i) ==
    LET found == {j \in i..Len(s) : ColorCodeEnd(s, j) > 0}
    IN  IF found = {} THEN SubSeq(s, i, Len(s))
        ELSE LET j == CHOOSE a \in found : \A b \in found : a <= b
             IN  SubSeq(s, i, j - 1) \o RemoveColorCodes(s, ColorCodeEnd(s, j) + 1)

\* \[\s*{ at index i: the index of the brace, or 0.
BlockOpen(s, i) ==
    IF i <= Len(s) /\ s[i] = Ch("[")
    THEN LET j == SkipSpace(s, i + 1)
         IN  IF j <= Len(s) /\ s[j] = Ch("{") THEN j ELSE 0
    ELSE 0

\* }\s*\] ending at index e, its brace after index b.
BlockClose(s, b, e) ==
    /\ s[e] = Ch("]")
    /\ \E k \in (b + 1)..(e - 1) :
          /\ s[k] = Ch("}")
          /\ \A n \in (k + 1)..(e - 1) : IsSpace(s[n])

\* output.match(/\[\s*{[\s\S]*}\s*\]/): the leftmost start that has a
\* match and, [\s\S]* being greedy, the last end for it; <<0, 0>> if none.
MatchJsonBlock(s) ==
    LET ends(i) == {e \in 1..Len(s) : BlockClose(s, BlockOpen(s, i), e)}
        starts == {i \in 1..Len(s) : BlockOpen(s, i) > 0 /\ ends(i) # {}}
    IN  IF starts = {} THEN <<0, 0>>
        ELSE LET i == CHOOSE a \in starts : \A b \in starts : a <= b
                 e == CHOOSE a \in ends(i) : \A b \in ends(i) : b <= a
             IN  <<i, e>>

\* Variant of extractJson without the colour-code removal.
extractJson_keepColors(output) ==
    LET match == MatchJsonBlock(output)
    IN  IF match = <<0, 0>>
        THEN Throw("Error", "No JSON returned by walrus")
        ELSE JSONparse(SubSeq(output, match[1], match[2]))

\* Variant of extractJson that returns an empty array when nothing matches.
extractJson_lenient(output) ==
    LET clean == RemoveColorCodes(output, 1)
        match == MatchJsonBlock(clean)
    IN  IF match = <<0, 0>>
        THEN Ok(JArr(<<>>))
        ELSE JSONparse(SubSeq(clean, match[1], match[2]))

\* extractJson(output)
extractJson(output) ==
    LET clean == RemoveColorCodes(output, 1)
        match == MatchJsonBlock(clean)
    IN  IF match = <<0, 0>>
        THEN Throw("Error", "No JSON returned by walrus")
        ELSE JSONparse(SubSeq(clean, match[1], match[2]))

WalrusBase == "https://walruscan.com/testnet"

\* parseWalrus(jsonArray)
parseWalrus(jsonArray) ==
    LET entry == Prop(jsonArray, "0")
    IN  IF Nullish(entry) THEN Throw("TypeError", "Cannot read properties")
        ELSE LET blobStoreResult == Prop(entry, "blobStoreResult")
    IN  IF Nullish(blobStoreResult) THEN Throw("TypeError", "Cannot read properties")
        ELSE IF Truthy(Prop(blobStoreResult, "newlyCreated"))
        THEN LET x == Prop(Prop(blobStoreResult, "newlyCreated"), "blobObject")
             IN  IF Nullish(x) THEN Throw("TypeError", "Cannot read properties")
                 ELSE Ok(JObj(<<
                     Member("blobId", Prop(x, "blobId")),
                     Member("objectId", Prop(x, "id")),
                     Member("walrusURL",
                         JStr(WalrusBase \o "/blob/" \o TemplateString(Prop(x, "blobId")))),
                     Member("objectURL",
                         JStr(WalrusBase \o "/object/" \o TemplateString(Prop(x, "id"))))>>))
        ELSE Throw("Error", "Unsupported Walrus JSON format")

(***************************************************************************)
(* The storage tool and its output                                         *)
(***************************************************************************)
RECURSIVE Pretty(_, _), PrettyMembers(_, _, _), PrettyElements(_, _, _)
\* The tool's --json output of value v: one member per line, and with
\* `color` every string literal wrapped in colour codes.
Pretty(v, color) ==
    CASE v.t = "str" ->
           IF color
           THEN <<ESC, Ch("["), Ch("3"), Ch("2"), Ch("m"), Str(v.v),
                  ESC, Ch("["), Ch("0"), Ch("m")>>
           ELSE <<Str(v.v)>>
      [] v.t = "obj" ->
           <<Ch("{"), Ch("\n")>> \o PrettyMembers(v.v, 1, color) \o <<Ch("}")>>
      [] v.t = "arr" ->
           <<Ch("["), Ch("\n")>> \o PrettyElements(v.v, 1, color) \o <<Ch("]")>>
      [] OTHER -> JSONstringify(v)

PrettyMembers(members, n, color) ==
    IF n > Len(members) THEN <<>>
    ELSE Pretty(JStr(members[n].k), color) \o <<Ch(":"), Ch(" ")>>
         \o Pretty(members[n].v, color)
         \o (IF n < Len(members) THEN <<Ch(",")>> ELSE <<>>) \o <<Ch("\n")>>
         \o PrettyMembers(members, n + 1, color)

PrettyElements(elems, n, color) ==
    IF n > Len(elems) THEN <<>>
    ELSE <<Ch(" ")>> \o Pretty(elems[n], color)
         \o (IF n < Len(elems) THEN <<Ch(",")>> ELSE <<>>) \o <<Ch("\n")>>
         \o PrettyElements(elems, n + 1, color)

\* An object with the members whose value is not undefined.
ObjectOf(members) == JObj(SelectSeq(members, LAMBDA m : m.v.t # "undefined"))

\* The JSON array the tool prints for a result of the given shape.
ResultArray(shape, blobId, objectId) ==
    LET blobObject ==
            ObjectOf(<<Member("id", objectId), Member("storedEpoch", JNum(<<"1", "2">>)),
                       Member("blobId", blobId), Member("deletable", JBool(FALSE))>>)
        newlyCreated ==
            JObj(<<Member("blobStoreResult",
                     JObj(<<Member("newlyCreated",
                              JObj(<<Member("blobObject", blobObject),
                                     Member("cost", JNum(<<"2", "5", "2", "5">>))>>))>>)),
                   Member("path", JStr("bundle"))>>)
        alreadyCertified ==
            JObj(<<Member("blobStoreResult",
                     JObj(<<Member("alreadyCertified",
                              ObjectOf(<<Member("blobId", blobId),
                                         Member("endEpoch", JNum(<<"1", "4">>))>>))>>)),
                   Member("path", JStr("bundle"))>>)
    IN  CASE shape = "newlyCreated" -> JArr(<<newlyCreated>>)
          [] shape = "newlyCreatedThenCertified" ->
               JArr(<<newlyCreated, alreadyCertified>>)
          [] shape = "alreadyCertified" -> JArr(<<alreadyCertified>>)
          [] shape = "noBlobObject" ->
               JArr(<<JObj(<<Member("blobStoreResult",
                               JObj(<<Member("newlyCreated", JObj(<<>>))>>))>>)>>)
          [] shape = "noBlobStoreResult" ->
               JArr(<<JObj(<<Member("path", JStr("bundle"))>>)>>)

Shapes == {"newlyCreated", "newlyCreatedThenCertified", "alreadyCertified",
           "noBlobObject", "noBlobStoreResult", "malformed", "none"}
BlobIds == {JStr("b64:ABC123"), JStr("Zm9vYmFy"), Undefined}
ObjectIds == {JStr("0xDEAD"), Undefined}

\* What the tool prints around its result.
Noise(name) ==
    CASE name = "nothing" -> <<>>
      [] name = "color" -> <<ESC, Ch("["), Ch("1"), Ch(";"), Ch("3"), Ch("2"), Ch("m")>>
      [] name = "reset" -> <<ESC, Ch("["), Ch("m"), Ch("\n")>>
      [] name = "eraseLine" -> <<ESC, Ch("["), Ch("2"), Ch("K")>>
      [] name = "log" -> <<Ch("Storing"), Ch(" "), Ch("blob"), Ch("\n")>>
      [] name = "bracketLog" ->
           <<Ch("["), Ch("{"), Ch("walrus"), Ch("}"), Ch(" "), Ch("]"),
             Ch(" "), Ch("done"), Ch("\n")>>
      [] name = "secondArray" ->
           <<Ch("\n"), Ch("["), Ch("{"), Str("elapsed"), Ch(":"), Ch("7"),
             Ch("}"), Ch("]"), Ch("\n")>>

AnsiNoise == {"color", "reset", "eraseLine"}
Before == {"nothing", "color", "eraseLine", "log", "bracketLog"}
After == {"nothing", "reset", "eraseLine", "log", "bracketLog", "secondArray"}

\* A run of the tool that exits 0.
ToolRun(pre, shape, blobId, objectId, color, post) ==
    [status |-> 0, pre |-> pre, shape |-> shape, blobId |-> blobId,
     objectId |-> objectId, color |-> color, post |-> post]

\* The successful runs: ids matter only to the shapes that print them.
ToolRuns ==
    {ToolRun(pre, shape, b, o, color, post) :
        pre \in Before, shape \in Shapes, b \in BlobIds, o \in ObjectIds,
        color \in BOOLEAN, post \in After}
    \ {r \in [status : {0}, pre : Before, shape : Shapes, blobId : BlobIds,
              objectId : ObjectIds, color : BOOLEAN, post : After] :
          \/ r.shape \in {"noBlobObject", "noBlobStoreResult", "malformed", "none"}
             /\ (r.blobId # Undefined \/ r.objectId # Undefined \/ r.color)
          \/ r.shape = "alreadyCertified" /\ r.objectId # Undefined}

\* The text the tool writes to its standard output in a run.
ToolOutput(run) ==
    Noise(run.pre)
    \o (CASE run.shape = "none" -> <<>>
          [] run.shape = "malformed" ->
               <<Ch("["), Ch(" "), Ch("{"), Str("blobStoreResult"), Ch(":"),
                 Ch("}"), Ch("]")>>
          [] OTHER ->
               Pretty(ResultArray(run.shape, run.blobId, run.objectId), run.color))
    \o Noise(run.post)

(***************************************************************************)
(* upload(filePath)                                                        *)
(***************************************************************************)
Cwd == "/srv/app"
FilePaths == {"bundle.zip", "/data/bundle.zip"}

\* path.resolve(filePath)
resolve(filePath) ==
    IF filePath = "/data/bundle.zip" THEN filePath ELSE Cwd \o "/" \o filePath

\* console.log("Uploading to Walrus Testnet:", abs)
ProgressLine(abs) == <<Ch("Uploading to Walrus Testnet:"), Ch(" "), Ch(abs)>>

\* Variant of final with a fifth field.
final_withStatus(p) ==
    JObj(<<Member("blobId", Prop(p, "blobId")),
           Member("objectId", Prop(p, "objectId")),
           Member("walrusURL", Prop(p, "walrusURL")),
           Member("objectURL", Prop(p, "objectURL")),
           Member("success", JBool(TRUE))>>)

\* const final = {blobId: parsed.blobId, ...}
final(p) ==
    JObj(<<Member("blobId", Prop(p, "blobId")),
           Member("objectId", Prop(p, "objectId")),
           Member("walrusURL", Prop(p, "walrusURL")),
           Member("objectURL", Prop(p, "objectURL"))>>)

\* No table is published, no transaction submitted; the adapter has not run.
Init ==
    /\ shared = <<>>
    /\ nextDigest = 1
    /\ pending = [c \in Callers |-> None]
    /\ history = <<>>
    /\ submitted = <<>>
    /\ ret = None
    /\ pc = "start"
    /\ file = None
    /\ input = None
    /\ raw = None
    /\ jsonArr = None
    /\ parsed = None
    /\ err = None
    /\ stdout = <<>>
    /\ stderr = <<>>
    /\ exitCode = None
    /\ spawned = 0
    /\ selectedFile = Null
    /\ uploading = FALSE
    /\ result = Null
    /\ error = Null
    /\ requests = <<>>

\* The script is run with a file path: upload() logs the resolved path.
Upload(filePath, exists) ==
    /\ pc = "start"
    /\ file' = [abs |-> resolve(filePath), exists |-> exists]
    /\ stdout' = Append(stdout, ProgressLine(resolve(filePath)))
    /\ pc' = "exec"
    /\ UNCHANGED <<input, raw, jsonArr, parsed, err, stderr, exitCode, spawned>>
    /\ UNCHANGED ledgerVars
    /\ UNCHANGED uiVars

\* execSync(cmd): the tool exits 0 and its output is returned.
ExecSyncReturns(run) ==
    /\ pc = "exec"
    /\ file.exists
    /\ spawned' = spawned + 1
    /\ input' = run
    /\ raw' = ToolOutput(run)
    /\ pc' = "extract"
    /\ UNCHANGED <<file, jsonArr, parsed, err, stdout, stderr, exitCode>>
    /\ UNCHANGED ledgerVars
    /\ UNCHANGED uiVars

\* execSync(cmd): the tool exits non-zero (always so for a missing file) and
\* execSync throws.
ExecSyncThrows(status) ==
    /\ pc = "exec"
    /\ spawned' = spawned + 1
    /\ input' = [status |-> status]
    /\ err' = Throw("Error", "Command failed: walrus store")
    /\ pc' = "catch"
    /\ UNCHANGED <<file, raw, jsonArr, parsed, stdout, stderr, exitCode>>
    /\ UNCHANGED ledgerVars
    /\ UNCHANGED uiVars

\* const jsonArr = extractJson(raw)
ExtractJson ==
    /\ pc = "extract"
    /\ LET r == extractJson(raw)
       IN  IF r.threw
           THEN err' = r /\ pc' = "catch" /\ UNCHANGED jsonArr
           ELSE jsonArr' = r.value /\ pc' = "parse" /\ UNCHANGED err
    /\ UNCHANGED <<file, input, raw, parsed, stdout, stderr, exitCode, spawned>>
    /\ UNCHANGED ledgerVars
    /\ UNCHANGED uiVars

\* const parsed = parseWalrus(jsonArr)
ParseWalrus ==
    /\ pc = "parse"
    /\ LET r == parseWalrus(jsonArr)
       IN  IF r.threw
           THEN err' = r /\ pc' = "catch" /\ UNCHANGED parsed
           ELSE parsed' = r.value /\ pc' = "emit" /\ UNCHANGED err
    /\ UNCHANGED <<file, input, raw, jsonArr, stdout, stderr, exitCode, spawned>>
    /\ UNCHANGED ledgerVars
    /\ UNCHANGED uiVars

\* console.log(JSON.stringify(final)); upload returns and the process ends.
Emit ==
    /\ pc = "emit"
    /\ stdout' = Append(stdout, JSONstringify(final(parsed)))
    /\ exitCode' = 0
    /\ pc' = "done"
    /\ UNCHANGED <<file, input, raw, jsonArr, parsed, err, stderr, spawned>>
    /\ UNCHANGED ledgerVars
    /\ UNCHANGED uiVars

\* Variant of the catch block that logs nothing and ends with status 0.
Catch_silent ==
    /\ pc = "catch"
    /\ exitCode' = 0
    /\ pc' = "exited"
    /\ UNCHANGED <<file, input, raw, jsonArr, parsed, err, stdout, stderr, spawned>>
    /\ UNCHANGED ledgerVars
    /\ UNCHANGED uiVars

\* Variant of the catch block that runs the tool once more before giving up.
Catch_retry ==
    /\ pc = "catch"
    /\ IF spawned < 2
       THEN pc' = "exec" /\ UNCHANGED <<stderr, exitCode>>
       ELSE /\ stderr' = Append(stderr, [text |-> "Upload failed!", err |-> err])
            /\ exitCode' = 1
            /\ pc' = "exited"
    /\ UNCHANGED <<file, input, raw, jsonArr, parsed, err, stdout, spawned>>
    /\ UNCHANGED ledgerVars
    /\ UNCHANGED uiVars

\* catch (err): console.error("Upload failed!", err); process.exit(1)
Catch ==
    /\ pc = "catch"
    /\ stderr' = Append(stderr, [text |-> "Upload failed!", err |-> err])
    /\ exitCode' = 1
    /\ pc' = "exited"
    /\ UNCHANGED <<file, input, raw, jsonArr, parsed, err, stdout, spawned>>
    /\ UNCHANGED ledgerVars
    /\ UNCHANGED uiVars

StoreNext ==
    \/ \E filePath \in FilePaths, exists \in BOOLEAN : Upload(filePath, exists)
    \/ \E run \in ToolRuns : ExecSyncReturns(run)
    \/ \E status \in {1, 2} : ExecSyncThrows(status)
    \/ ExtractJson
    \/ ParseWalrus
    \/ Emit
    \/ Catch

(***************************************************************************)
(* The upload form: components/UploadSection.tsx                           *)
(*                                                                         *)
(* The component's state is file (here selectedFile), uploading, result    *)
(* and error.  handleUpload is async: the part before its first await runs *)
(* in the click, each continuation runs when fetch or the body promise     *)
(* settles; a call that is waiting is an element of requests.              *)
(***************************************************************************)
MaxRequests == 2

\* The File objects the user can pick in the file input.
File(name) == [t |-> "file", name |-> name]
Files == {File("a.csv"), File("b.csv"), File("c.csv")}

\* What the input's onChange reads: files[0], or nothing (dialog cancelled).
Picked == Files \cup {Undefined}

\* The server's answers: the audit of the uploaded dataset with status 200,
\* or an error status with a text body.
Audit(f) == [t |-> "object", dataset |-> f.name]
NotOkStatuses == {"400", "500"}
ErrorBodies == {"invalid CSV", ""}

\* The errors a rejected fetch() or body promise carries.
NetworkErrors == {Throw("TypeError", "Failed to fetch"), Throw("TypeError", "")}
JsonErrors == NetworkErrors \cup {Throw("SyntaxError", "Unexpected token < in JSON")}

\* err.message || String(err)
ErrorText(e) == IF e.message # "" THEN e.message ELSE e.name

PleaseChoose == JStr("Please choose a CSV file first.")

\* `Upload failed: ${res.status} ${text}`
UploadFailed(status, text) == JStr("Upload failed: " \o status \o " " \o text)

\* A call of handleUpload waiting at one of its awaits.
Request(f, stage, status) == [file |-> f, stage |-> stage, status |-> status]

Remove(seq, i) == SubSeq(seq, 1, i - 1) \o SubSeq(seq, i + 1, Len(seq))

\* <input type="file" onChange=...>
OnChange(picked) ==
    /\ selectedFile' = IF Truthy(picked) THEN picked ELSE Null
    /\ result' = Null
    /\ error' = Null
    /\ UNCHANGED <<uploading, requests>>
    /\ UNCHANGED <<ledgerVars, storeVars>>

\* The Reset button's onClick.
Reset ==
    /\ selectedFile' = Null
    /\ result' = Null
    /\ error' = Null
    /\ UNCHANGED <<uploading, requests>>
    /\ UNCHANGED <<ledgerVars, storeVars>>

\* handleUpload, up to the call of fetch.
HandleUpload ==
    /\ IF selectedFile = Null
       THEN /\ error' = PleaseChoose
            /\ UNCHANGED <<uploading, requests>>
       ELSE /\ Len(requests) < MaxRequests
            /\ error' = Null
            /\ uploading' = TRUE
            /\ requests' = Append(requests, Request(selectedFile, "fetch", ""))
    /\ UNCHANGED <<selectedFile, result>>
    /\ UNCHANGED <<ledgerVars, storeVars>>

\* Variant of the button's disabled attribute that ignores uploading.
Disabled_fileOnly == selectedFile = Null

\* disabled={uploading || !file}
Disabled == uploading \/ selectedFile = Null

\* A click on the Upload button.
ClickUpload ==
    /\ ~Disabled
    /\ HandleUpload

\* handleUpload called while no file is selected (the button is disabled
\* then: this is the function called on its own).
HandleUploadNoFile ==
    /\ selectedFile = Null
    /\ HandleUpload

\* Variant of the finally block that leaves uploading as it is.
Finally_keepUploading(i) ==
    /\ UNCHANGED uploading
    /\ requests' = Remove(requests, i)

\* finally { setUploading(false) }, and the call is over.
Finally(i) ==
    /\ uploading' = FALSE
    /\ requests' = Remove(requests, i)

\* fetch() resolves with a response: on to res.json() or res.text().
FetchResolves(i, status) ==
    /\ i \in 1..Len(requests)
    /\ requests[i].stage = "fetch"
    /\ requests' = [requests EXCEPT ![i] =
                      Request(@.file, IF status = "200" THEN "json" ELSE "text", status)]
    /\ UNCHANGED <<selectedFile, uploading, result, error>>
    /\ UNCHANGED <<ledgerVars, storeVars>>

\* fetch() rejects: catch, finally.
FetchRejects(i, e) ==
    /\ i \in 1..Len(requests)
    /\ requests[i].stage = "fetch"
    /\ error' = JStr(ErrorText(e))
    /\ Finally(i)
    /\ UNCHANGED <<selectedFile, result>>
    /\ UNCHANGED <<ledgerVars, storeVars>>

\* res.json() resolves: setResult(json), finally.
JsonResolves(i) ==
    /\ i \in 1..Len(requests)
    /\ requests[i].stage = "json"
    /\ result' = Audit(requests[i].file)
    /\ Finally(i)
    /\ UNCHANGED <<selectedFile, error>>
    /\ UNCHANGED <<ledgerVars, storeVars>>

\* res.json() rejects: catch, finally.
JsonRejects(i, e) ==
    /\ i \in 1..Len(requests)
    /\ requests[i].stage = "json"
    /\ error' = JStr(ErrorText(e))
    /\ Finally(i)
    /\ UNCHANGED <<selectedFile, result>>
    /\ UNCHANGED <<ledgerVars, storeVars>>

\* res.text() resolves: throw new Error(`Upload failed: ...`), catch, finally.
TextResolves(i, text) ==
    /\ i \in 1..Len(requests)
    /\ requests[i].stage = "text"
    /\ error' = UploadFailed(requests[i].status, text)
    /\ Finally(i)
    /\ UNCHANGED <<selectedFile, result>>
    /\ UNCHANGED <<ledgerVars, storeVars>>

\* res.text() rejects: catch, finally.
TextRejects(i, e) ==
    /\ i \in 1..Len(requests)
    /\ requests[i].stage = "text"
    /\ error' = JStr(ErrorText(e))
    /\ Finally(i)
    /\ UNCHANGED <<selectedFile, result>>
    /\ UNCHANGED <<ledgerVars, storeVars>>

\* A promise a call of handleUpload awaits settles and the call continues.
Settle ==
    \E i \in 1..MaxRequests :
        \/ \E status \in {"200"} \cup NotOkStatuses : FetchResolves(i, status)
        \/ \E e \in NetworkErrors : FetchRejects(i, e)
        \/ JsonResolves(i)
        \/ \E e \in JsonErrors : JsonRejects(i, e)
        \/ \E text \in ErrorBodies : TextResolves(i, text)
        \/ \E e \in NetworkErrors : TextRejects(i, e)

UploadNext ==
    \/ \E picked \in Picked : OnChange(picked)
    \/ Reset
    \/ ClickUpload
    \/ Settle

HandlerNext ==
    \/ UploadNext
    \/ HandleUploadNoFile

(***************************************************************************)
(* Specifications                                                          *)
(***************************************************************************)
\* The ledger, with no adapter process running.
SpecLedger == Init /\ [][LedgerNext]_vars

\* One run of the adapter, with no ledger transaction.
SpecStore == Init /\ [][StoreNext]_vars

\* The upload form as the user drives it.
SpecUpload == Init /\ [][UploadNext]_vars

\* The upload form, with handleUpload also called on its own, and every
\* awaited promise settling: the continuation of an await runs once the
\* promise has settled.
SpecUploadFair == Init /\ [][HandlerNext]_vars /\ WF_vars(Settle)

(***************************************************************************)
(* Properties of the ledger                                                *)
(***************************************************************************)
IsPrefix(s, t) ==
    /\ Len(s) <= Len(t)
    /\ \A k \in 1..Len(s) : s[k] = t[k]

\* The anchor_audit transactions committed against table `id`, in commit order.
CommitsOn(id) == SelectSeq(history, LAMBDA tx : tx.table = id)

\* How many elements of sequence s equal x.
Count(s, x) == Cardinality({k \in DOMAIN s : s[k] = x})

PendingTxs == {c \in Callers : pending[c] # None}

\* C1: after N anchor_audit calls on a table have committed, proof_count of
\* the table is exactly N and the i-th stored proof is the (bundle_hash,
\* fairness_score, timestamp) triple of the i-th committed call.
Thm_C1_CountAndOrder ==
    \A i \in DOMAIN shared :
        LET cs == CommitsOn(shared[i].id)
        IN  /\ proof_count(shared[i]).value = Len(cs)
            /\ Len(shared[i].proofs) = Len(cs)
            /\ \A k \in 1..Len(cs) : shared[i].proofs[k] = cs[k].proof

Wit_C1_TwoCommitted ==
    \E i \in DOMAIN shared :
        /\ PendingTxs = {}
        /\ Len(CommitsOn(shared[i].id)) = 2
        /\ shared[i].proofs[1] # shared[i].proofs[2]
        /\ submitted = history

\* C2: append-only ledger: over every step each existing table keeps its
\* id and its proofs before the step are a prefix of its proofs after it.
Thm_C2_AppendOnly ==
    [][\A i \in DOMAIN shared :
          /\ i \in DOMAIN shared'
          /\ shared'[i].id = shared[i].id
          /\ IsPrefix(shared[i].proofs, shared'[i].proofs)]_vars

Wit_C2_Grown ==
    \E i \in DOMAIN shared :
        /\ Len(shared[i].proofs) = 2
        /\ ret # None
        /\ Len(shared) = MaxTables

\* C3: concurrent anchor_audit transactions on one table lose no append:
\* every submitted transaction is either still pending or stored exactly
\* once and whole, and the stored order is the commit order.
Thm_C3_NoLostAppend ==
    /\ \A n \in DOMAIN submitted :
          LET tx == submitted[n]
          IN  /\ tx.table \in TableIds
              /\ Count(submitted, tx)
                   = Count(shared[TableAt(tx.table)].proofs, tx.proof)
                     + Cardinality({c \in Callers : pending[c] = tx})
    /\ \A i \in DOMAIN shared :
          /\ Len(shared[i].proofs) = Len(CommitsOn(shared[i].id))
          /\ \A k \in DOMAIN shared[i].proofs :
                shared[i].proofs[k] = CommitsOn(shared[i].id)[k].proof
    /\ PendingTxs = {} =>
          /\ Len(history) = Len(submitted)
          /\ \A tx \in {submitted[n] : n \in DOMAIN submitted} :
                Count(history, tx) = Count(submitted, tx)

\* Two transactions on one table were pending together and committed in the
\* order opposite to their submission.
Wit_C3_RacedAndCommitted ==
    /\ PendingTxs = {}
    /\ Len(submitted) = 2
    /\ submitted[1] # submitted[2]
    /\ submitted[1].table = submitted[2].table
    /\ history = <<submitted[2], submitted[1]>>
    /\ shared[TableAt(submitted[1].table)].proofs
         = <<submitted[2].proof, submitted[1].proof>>

\* C4: two init_table calls create tables with distinct ids, an
\* anchor_audit on one table changes no other table's proofs, and each
\* table holds only proofs anchored against it.
Thm_C4_TablesIndependent ==
    [][/\ \A i, j \in DOMAIN shared' :
             i # j => shared'[i].id # shared'[j].id
       /\ \A i \in DOMAIN shared :
             shared'[i].proofs # shared[i].proofs =>
                /\ Len(history') = Len(history) + 1
                /\ history'[Len(history')].table = shared[i].id
       /\ \A i \in DOMAIN shared' :
             \A k \in DOMAIN shared'[i].proofs :
                \E h \in DOMAIN history' :
                   /\ history'[h].table = shared'[i].id
                   /\ history'[h].proof = shared'[i].proofs[k]]_vars

Wit_C4_TwoTablesOneEach ==
    /\ Len(shared) >= 2
    /\ Len(shared[1].proofs) = 1
    /\ Len(shared[2].proofs) = 1
    /\ shared[1].proofs # shared[2].proofs
    /\ shared[1].id # shared[2].id

\* C5: init_table creates a table with no proofs: as long as no
\* anchor_audit has committed on a table, its proofs are empty and every
\* proof_count read of it returned 0.
Thm_C5_FreshTableEmpty ==
    \A i \in DOMAIN shared :
        CommitsOn(shared[i].id) = <<>> =>
            /\ shared[i].proofs = <<>>
            /\ (ret # None /\ ret.table = shared[i].id) => ret.value = 0

Wit_C5_CountZero ==
    /\ ret # None
    /\ ret.value = 0
    /\ \E i \in DOMAIN shared :
          ret.table = shared[i].id /\ CommitsOn(shared[i].id) = <<>>

\* C6: a committed anchor_audit appends exactly its own entry to its table,
\* whatever the bundle_hash (empty, or already present), fairness_score and
\* timestamp (also one below the previous entry's).
Thm_C6_AlwaysAppends ==
    [][\A c \in Callers :
          (pending[c] # None /\ pending'[c] = None) =>
             LET tx == pending[c]
                 i == TableAt(tx.table)
             IN  shared'[i].proofs = Append(shared[i].proofs, tx.proof)]_vars

Wit_C6_NoValidation ==
    \E i \in DOMAIN shared :
        /\ Len(shared[i].proofs) = 2
        /\ shared[i].proofs[1].bundle_hash = <<>>
        /\ shared[i].proofs[2].bundle_hash = <<>>
        /\ shared[i].proofs[2].timestamp < shared[i].proofs[1].timestamp

\* C7: proof_count is read-only: a read returns the number of proofs
\* committed to the table and leaves every table unchanged.
Thm_C7_ProofCountReadOnly ==
    [][\A i \in DOMAIN shared :
          ProofCount(i) =>
             /\ shared' = shared
             /\ ret'.table = shared[i].id
             /\ ret'.value = Len(CommitsOn(shared[i].id))]_vars

Wit_C7_CountRead ==
    /\ ret # None
    /\ ret.value = 2
    /\ \E i \in DOMAIN shared :
          ret.table = shared[i].id /\ Len(shared[i].proofs) = 2

(***************************************************************************)
(* Properties of the storage adapter                                       *)
(***************************************************************************)
\* The tool exited 0 and printed a result of one of the given shapes.
Printed(shapes) ==
    /\ input # None
    /\ input.status = 0
    /\ input.shape \in shapes

\* The names of an object's members, in order.
Keys(obj) == [n \in DOMAIN obj.v |-> obj.v[n].k]

\* The last line written to standard output, read as JSON.
Receipt == JSONparse(stdout[Len(stdout)])

\* The tool's output is a newly-created array with both identifiers,
\* wrapped in (and possibly coloured by) ANSI escape sequences only.
AnsiWrappedNewlyCreated ==
    /\ Printed({"newlyCreated", "newlyCreatedThenCertified"})
    /\ input.blobId # Undefined
    /\ input.objectId # Undefined
    /\ input.pre \in AnsiNoise \cup {"nothing"}
    /\ input.post \in AnsiNoise \cup {"nothing"}
    /\ input.color \/ input.pre \in AnsiNoise \/ input.post \in AnsiNoise

\* C8: for tool output that wraps a valid newly-created array in ANSI
\* escape sequences, upload does not fail, and the receipt it prints holds
\* the array's blobId and object id and the URLs base/blob/<blobId> and
\* base/object/<objectId>.
Thm_C8_AnsiWrappedReceipt ==
    AnsiWrappedNewlyCreated =>
        /\ pc \notin {"catch", "exited"}
        /\ pc = "done" =>
              /\ exitCode = 0
              /\ ~Receipt.threw
              /\ Prop(Receipt.value, "blobId") = input.blobId
              /\ Prop(Receipt.value, "objectId") = input.objectId
              /\ Prop(Receipt.value, "walrusURL") =
                   JStr("https://walruscan.com/testnet/blob/" \o input.blobId.v)
              /\ Prop(Receipt.value, "objectURL") =
                   JStr("https://walruscan.com/testnet/object/" \o input.objectId.v)

Wit_C8_ColoredDone ==
    /\ pc = "done"
    /\ AnsiWrappedNewlyCreated
    /\ input.color
    /\ input.pre = "color"
    /\ input.post = "reset"
    /\ Prop(Receipt.value, "walrusURL")
         = JStr("https://walruscan.com/testnet/blob/b64:ABC123")

Cex_C10_ReceiptComplete ==
    pc = "done" =>
        /\ ~Receipt.threw
        /\ \A k \in {"blobId", "objectId", "walrusURL", "objectURL"} :
              /\ Prop(Receipt.value, k).t = "str"
              /\ Prop(Receipt.value, k).v # ""
        /\ input.blobId # Undefined
        /\ input.objectId # Undefined
        /\ Prop(Receipt.value, "walrusURL")
             # JStr("https://walruscan.com/testnet/blob/undefined")
        /\ Prop(Receipt.value, "objectURL")
             # JStr("https://walruscan.com/testnet/object/undefined")

\* The tool printed no result, and nothing around it that looks like an
\* array of objects: no '[' '{' ... '}' ']' block at all.
NoBracketBlock ==
    /\ Printed({"none"})
    /\ input.pre \in {"nothing", "color", "eraseLine", "log"}
    /\ input.post \in {"nothing", "reset", "eraseLine", "log"}

\* The tool's output holds no JSON array: no result, or a malformed one, and
\* no other array after it (a bracketed log line is not JSON).
NoJsonArray ==
    /\ Printed({"none", "malformed"})
    /\ input.post # "secondArray"

AfterExtract == pc \notin {"start", "exec", "extract"}

OtherShape == Printed({"alreadyCertified", "noBlobObject", "noBlobStoreResult"})

\* Nothing but the result array, so that it is found and parses.
CleanOutput ==
    /\ input.pre \in {"nothing", "color", "eraseLine", "log"}
    /\ input.post \in {"nothing", "reset", "eraseLine", "log"}

\* C12: for output whose array parses and whose first element is an
\* already-certified result, has no blobStoreResult, or is a newly-created
\* entry without blobObject, upload fails with the error "Unsupported Walrus
\* JSON format" and prints no receipt.
Cex_C12_UnsupportedShapeKind ==
    (OtherShape /\ CleanOutput /\ pc \in {"catch", "emit", "done", "exited"}) =>
        /\ pc \in {"catch", "exited"}
        /\ err = Throw("Error", "Unsupported Walrus JSON format")
        /\ Len(stdout) = 1

\* Which of the four failure conditions of a failed run occurred.
Condition ==
    CASE ~file.exists -> "file does not exist"
      [] input.status # 0 -> "subprocess exits non-zero"
      [] jsonArr = None -> "no JSON array found"
      [] OTHER -> "not the newly created shape"

\* C13: the four failure conditions are reported as four distinct kinds:
\* the error reported is "Command failed" exactly for a non-zero exit of the
\* tool on an existing file, "No JSON returned by walrus" exactly when no
\* array was found, "Unsupported Walrus JSON format" exactly for another
\* shape, and something else for a missing file.
Cex_C13_DistinctKinds ==
    pc = "exited" =>
        /\ err.message = "Command failed: walrus store"
             <=> Condition = "subprocess exits non-zero"
        /\ err.message = "No JSON returned by walrus"
             <=> Condition = "no JSON array found"
        /\ err.message = "Unsupported Walrus JSON format"
             <=> Condition = "not the newly created shape"

\* C14: a run in which an error was thrown writes one diagnostic to the
\* error stream, ends with a non-zero status and prints no receipt; a run
\* ends with status 0 only after printing the receipt line.
Thm_C14_FailureReported ==
    /\ err # None => /\ pc \in {"catch", "exited"}
                     /\ stdout = <<ProgressLine(file.abs)>>
    /\ pc = "exited" => /\ err # None
                        /\ exitCode = 1
                        /\ stderr = <<[text |-> "Upload failed!", err |-> err]>>
    /\ pc # "exited" => stderr = <<>>
    /\ pc = "done" => /\ exitCode = 0
                      /\ err = None
                      /\ Len(stdout) = 2
                      /\ stdout[2] = JSONstringify(final(parsed))
    /\ pc \notin {"done", "exited"} => exitCode = None

Wit_C14_SyntaxErrorReported ==
    /\ pc = "exited"
    /\ exitCode = 1
    /\ Len(stderr) = 1
    /\ stderr[1].err.name = "SyntaxError"
    /\ input.status = 0

\* C15: a run spawns the tool exactly once, whether it succeeds or fails:
\* no process before execSync, one from then on, also when the run is over.
Thm_C15_OneProcess ==
    /\ pc \in {"start", "exec"} => spawned = 0
    /\ pc \notin {"start", "exec"} => spawned = 1

Wit_C15_FailedAfterOneSpawn ==
    /\ pc = "exited"
    /\ spawned = 1
    /\ input.status # 0
    /\ file.exists

\* C16: a valid newly-created array followed by further output that holds
\* a '}' and then a ']' still gives the receipt of the first array.
Cex_C16_FirstBlockOnly ==
    (/\ Printed({"newlyCreated"})
     /\ input.blobId # Undefined
     /\ input.objectId # Undefined
     /\ input.pre \in {"nothing", "color", "eraseLine", "log"}
     /\ input.post \in {"bracketLog", "secondArray"}
     /\ AfterExtract) =>
        /\ pc \notin {"catch", "exited"}
        /\ pc = "done" =>
              /\ Prop(Receipt.value, "blobId") = input.blobId
              /\ Prop(Receipt.value, "objectId") = input.objectId

\* C17: whenever a result is shown, a file is selected and the result is
\* the audit of that file; a response that arrives after Reset or after
\* another file was chosen does not set result.
Cex_C17_ResultOfSelectedFile ==
    result # Null =>
        /\ selectedFile # Null
        /\ result = Audit(selectedFile)

\* C18: result and error are never both set: a failed upload does not leave
\* the result of an earlier upload next to the new error.
Cex_C18_ResultOrError == ~(result # Null /\ error # Null)

\* C19: at most one call of handleUpload is waiting for its request at any
\* time, and uploading is true exactly while one is, whatever is selected
\* or reset meanwhile; a request starts only from a state with a file
\* selected and uploading false.
Thm_C19_OneRequestInFlight ==
    /\ [](/\ Len(requests) <= 1
          /\ uploading <=> Len(requests) = 1)
    /\ [][Len(requests') > Len(requests) =>
            /\ ~Disabled
            /\ selectedFile # Null
            /\ ~uploading
            /\ requests = <<>>
            /\ requests' = <<Request(selectedFile, "fetch", "")>>]_vars

Wit_C19_ResetWhileUploading ==
    /\ uploading
    /\ selectedFile = Null
    /\ Len(requests) = 1
    /\ requests[1].stage = "json"

\* The call of handleUpload that is waiting, when there is exactly one.
TheRequest == requests[1]

\* C20: provided the awaited promises settle, every upload that starts ends
\* with uploading false and no call waiting; the step that ends it sets
\* result to the server's JSON when the response was OK and its body parsed,
\* and sets error otherwise (non-OK status, rejected fetch, unparsable
\* body); handleUpload with no file selected sets error to "Please choose a
\* CSV file first.", starts no request and leaves uploading as it was.
Thm_C20_UploadCompletes ==
    /\ uploading ~> (~uploading /\ requests = <<>>)
    /\ [][Len(requests') < Len(requests) =>
            /\ ~uploading'
            /\ requests' = <<>>
            /\ CASE TheRequest.stage = "json" ->
                      \/ result' = Audit(TheRequest.file) /\ error' = error
                      \/ /\ error' \in {JStr(ErrorText(e)) : e \in JsonErrors}
                         /\ result' = result
                 [] TheRequest.stage = "text" ->
                      /\ error' \in
                           {UploadFailed(TheRequest.status, text) : text \in ErrorBodies}
                             \cup {JStr(ErrorText(e)) : e \in NetworkErrors}
                      /\ TheRequest.status \in NotOkStatuses
                      /\ result' = result
                 [] TheRequest.stage = "fetch" ->
                      /\ error' \in {JStr(ErrorText(e)) : e \in NetworkErrors}
                      /\ result' = result]_vars
    /\ [][HandleUploadNoFile =>
            /\ error' = PleaseChoose
            /\ requests' = requests
            /\ uploading' = uploading
            /\ result' = result]_vars

Wit_C20_BothOutcomes ==
    /\ result # Null
    /\ error = PleaseChoose
    /\ selectedFile = Null
    /\ ~uploading
    /\ requests = <<>>

====
